---- MODULE Spec2Model ----
(***************************************************************************)
(* The routing core of the multi-agent assistant                           *)
(* (src/services/supervisor_agent.py): SupervisorAgent.route() builds an   *)
(* AgentState, runs the compiled LangGraph (classifier node, conditional   *)
(* edge, one terminal node) and extracts the routing decision.             *)
(*                                                                         *)
(* Python values are represented as follows.  A str that the code takes    *)
(* apart or builds (the model's raw response, domain identifiers, node     *)
(* names) is a sequence of one-character strings.  A str that the code     *)
(* only copies (a message text, a user id) is a TLA+ string.  A dict is a  *)
(* function on its keys.  An Optional[T] is None or Some(x): a set with    *)
(* no element or with the one element x.                                   *)
(***************************************************************************)
EXTENDS Naturals, Sequences, FiniteSets, TLC

VARIABLES
    pc,      \* per route() invocation: where the coroutine stands
    args,    \* per invocation: the arguments route() was called with
    state,   \* per invocation: the AgentState threaded through the graph
    node,    \* per invocation: the graph node scheduled to run next
    ran,     \* per invocation: the nodes that have started, in order
    llm,     \* per invocation: the classification call (count, outcome, prompt, response)
    result,  \* per invocation: the value route() returned
    supervisor_agent,  \* the shared SupervisorAgent instance: domains, graph
    session_state,  \* st.session_state of the chat page
    turn,    \* the turn the chat page is processing
    tool,    \* the call of tools_service in progress
    settings, \* the global Settings instance
    chat,    \* the call of LLMService.stream_chat_completion in progress
    anam     \* the call of AnamService in progress

vars == <<pc, args, state, node, ran, llm, result, supervisor_agent,
         session_state, turn, tool, settings, chat, anam>>

\* The state that no step of route() writes.
elsewhere ==
    <<supervisor_agent, session_state, turn, tool, settings, chat, anam>>

\* The state of the router: the invocations of route() and the instance.
router == <<pc, args, state, node, ran, llm, result, supervisor_agent>>

\* Settings(): the fields of the class with the values the environment
\* gives the two keys that may be left out or empty.
Settings(anam_api_key, groq_api_key) ==
    [anam_api_key                 |-> anam_api_key,
     cerebras_api_key             |-> "cerebras-key",
     serpapi_key                  |-> "serpapi-key",
     mem0_api_key                 |-> "mem0-key",
     groq_api_key                 |-> groq_api_key,
     anam_api_base_url            |-> "https://api.anam.ai",
     anam_avatar_id               |-> "30fa96d0",
     anam_voice_id                |-> "6bfbe25a",
     mem0_enabled                 |-> TRUE,
     mem0_version                 |-> "v1.0",
     chromadb_collection_name     |-> "documents",
     chromadb_persist_directory   |-> "./data/chroma",
     primary_llm_model            |-> "gpt-oss-120b",
     agent_domains                |-> <<"research", "finance", "travel",
                                        "shopping", "jobs", "recipes">>,
     fastrtc_enabled              |-> TRUE,
     fastrtc_server_url           |-> {},
     enable_text_chat             |-> TRUE,
     enable_video_avatar          |-> TRUE,
     enable_voice_agent           |-> TRUE]

\* Optional[T]: None, or Some(x) for a value x of T.
None == {}
Some(x) == {x}
TheValue(o) == CHOOSE x \in o : TRUE

Range(f) == {f[k] : k \in DOMAIN f}

-----------------------------------------------------------------------------
(* Bounds of the model.                                                    *)

\* Longest conversation_history passed to route().
MaxHist == 1
\* Invocations of route() in flight together in SpecConcurrent.
MaxConcurrent == 2
\* Invocations of route() made one after another in SpecSequential.
MaxSequential == 3

-----------------------------------------------------------------------------
(* The domain registry: AgentDomain and self.domains.                      *)

research == <<"r", "e", "s", "e", "a", "r", "c", "h">>
finance  == <<"f", "i", "n", "a", "n", "c", "e">>
travel   == <<"t", "r", "a", "v", "e", "l">>
shopping == <<"s", "h", "o", "p", "p", "i", "n", "g">>
jobs     == <<"j", "o", "b", "s">>
recipes  == <<"r", "e", "c", "i", "p", "e", "s">>

\* class AgentDomain(str, Enum), in declaration order.
AgentDomain == <<research, finance, travel, shopping, jobs, recipes>>

\* self.domains, the attribute __init__ sets from the enum.
domains == supervisor_agent.domains

-----------------------------------------------------------------------------
(* str.strip() and str.lower() on character sequences.                     *)

\* The whitespace str.strip() removes (the ASCII part that occurs here).
Whitespace == {" ", "\t", "\n", "\r"}

UpperCase == <<"A", "B", "C", "D", "E", "F", "G", "H", "I", "J", "K", "L", "M",
               "N", "O", "P", "Q", "R", "S", "T", "U", "V", "W", "X", "Y", "Z">>
LowerCase == <<"a", "b", "c", "d", "e", "f", "g", "h", "i", "j", "k", "l", "m",
               "n", "o", "p", "q", "r", "s", "t", "u", "v", "w", "x", "y", "z">>

LowerChar(c) ==
    IF \E k \in DOMAIN UpperCase : UpperCase[k] = c
    THEN LowerCase[CHOOSE k \in DOMAIN UpperCase : UpperCase[k] = c]
    ELSE c

\* s.lower()
Lower(s) == [k \in 1..Len(s) |-> LowerChar(s[k])]

RECURSIVE LStrip(_)
LStrip(s) ==
    IF s # <<>> /\ Head(s) \in Whitespace THEN LStrip(Tail(s)) ELSE s

RECURSIVE RStrip(_)
RStrip(s) ==
    IF s # <<>> /\ s[Len(s)] \in Whitespace
    THEN RStrip(SubSeq(s, 1, Len(s) - 1))
    ELSE s

\* s.strip()
Strip(s) == RStrip(LStrip(s))

\* An Optional[str] as an f-string formats it: None becomes the text None.
Str(o) == IF o = None THEN <<"N", "o", "n", "e">> ELSE TheValue(o)

-----------------------------------------------------------------------------
(* dict operations.                                                        *)

EmptyDict == <<>>

\* {**d, k: v}
Put(d, k, v) == [x \in (DOMAIN d) \cup {k} |-> IF x = k THEN v ELSE d[x]]

\* d.get(k, default)
Get(d, k, default) == IF k \in DOMAIN d THEN d[k] ELSE default

\* d.get(k): an Optional
GetOpt(d, k) == IF k \in DOMAIN d THEN Some(d[k]) ELSE None

-----------------------------------------------------------------------------
(* A Python value whose type matters is a record of its type and its      *)
(* items, so that {} and [] differ and a str differs from None; the items *)
(* of a str are its characters.                                           *)

PyNone == [type |-> "NoneType", items |-> <<>>]
PyDict(items) == [type |-> "dict", items |-> items]
PyList(items) == [type |-> "list", items |-> items]
PyTrue == [type |-> "bool", items |-> <<"True">>]
PyFalse == [type |-> "bool", items |-> <<>>]
PyStr(chars) == [type |-> "str", items |-> chars]

\* The truth value of a Python value: None, {}, [] and False are false.
PyTruthy(v) == v.items # <<>>

\* s.startswith(prefix)
StartsWith(s, prefix) ==
    Len(s) >= Len(prefix) /\ SubSeq(s, 1, Len(prefix)) = prefix

\* s.replace(old, new) for single characters
Replace(s, old, new) == [k \in 1..Len(s) |-> IF s[k] = old THEN new ELSE s[k]]

-----------------------------------------------------------------------------
(* Messages and the AgentState built by route().                           *)

HumanMessage(content) == [type |-> "human", content |-> content]
AIMessage(content) == [type |-> "ai", content |-> content]

\* `if conversation_history:` is false for None and for the empty list.
Truthy(conversation_history) ==
    conversation_history # None /\ TheValue(conversation_history) # <<>>

\* route(): messages = [HumanMessage(message)], then one message appended
\* for each entry of conversation_history.
BuildMessages(message, conversation_history) ==
    <<HumanMessage(message)>> \o
    (IF Truthy(conversation_history)
     THEN LET h == TheValue(conversation_history)
          IN  [k \in 1..Len(h) |->
                  IF h[k].role = "user"
                  THEN HumanMessage(h[k].content)
                  ELSE AIMessage(h[k].content)]
     ELSE <<>>)

\* route(): the initial AgentState.
InitialState(message, user_id, conversation_history, user_memories) ==
    [messages             |-> BuildMessages(message, conversation_history),
     next_agent           |-> None,
     last_message         |-> message,
     conversation_context |-> EmptyDict,
     user_id              |-> user_id,
     user_memories        |-> user_memories]

\* How the graph applies a node's partial update to the state: the messages
\* channel has the reducer lambda x, y: x + y, every other channel takes the
\* value written.
Merge(st, update) ==
    [k \in DOMAIN st |->
        IF k \in DOMAIN update
        THEN IF k = "messages" THEN st[k] \o update[k] ELSE update[k]
        ELSE st[k]]

-----------------------------------------------------------------------------
(* The classifier node, _classify_domain.                                  *)

\* last_message = messages[-1].content if messages else ""
LastMessageOf(st) ==
    LET messages == Get(st, "messages", <<>>)
    IN  IF messages # <<>> THEN messages[Len(messages)].content ELSE ""

\* The prompt: a fixed template with two holes, the registry and the query.
classification_prompt(last_message) ==
    [domains |-> domains, query |-> last_message]

\* ParseDomain without the lower-casing.
ParseDomainNoLower(content) == Strip(content)

\* domain = response.content.strip().lower()
ParseDomain(content) == Lower(Strip(content))

\* ValidateDomain falling back to the domain of the latest decision the
\* instance returned, when there is one.
ValidateDomainSticky(domain) ==
    LET returned == {j \in DOMAIN pc : pc[j] = "returned"}
        latest == CHOOSE j \in returned : \A k \in returned : k <= j
    IN  IF domain \notin Range(domains)
        THEN IF returned = {}
             THEN research
             ELSE TheValue(result[latest]).recommended_agent
        ELSE domain

\* if domain not in self.domains: domain = "research"
ValidateDomain(domain) ==
    IF domain \notin Range(domains) THEN research ELSE domain

\* classify_domain_update with the answer of the model appended to messages.
classify_domain_update_appending(st, content) ==
    LET domain == ValidateDomain(ParseDomain(content))
    IN  [messages             |-> <<AIMessage(content)>>,
         next_agent           |-> Some(domain),
         conversation_context |->
             Put(Get(st, "conversation_context", EmptyDict),
                 "classified_domain", domain)]

\* The partial update _classify_domain returns once the model has answered.
classify_domain_update(st, content) ==
    LET domain == ValidateDomain(ParseDomain(content))
    IN  [next_agent           |-> Some(domain),
         conversation_context |->
             Put(Get(st, "conversation_context", EmptyDict),
                 "classified_domain", domain)]

-----------------------------------------------------------------------------
(* The terminal nodes, _route_to_<domain>.                                 *)

classifier == <<"c", "l", "a", "s", "s", "i", "f", "i", "e", "r">>
research_agent ==
    <<"r", "e", "s", "e", "a", "r", "c", "h", "_", "a", "g", "e", "n", "t">>
finance_agent ==
    <<"f", "i", "n", "a", "n", "c", "e", "_", "a", "g", "e", "n", "t">>
travel_agent ==
    <<"t", "r", "a", "v", "e", "l", "_", "a", "g", "e", "n", "t">>
shopping_agent ==
    <<"s", "h", "o", "p", "p", "i", "n", "g", "_", "a", "g", "e", "n", "t">>
jobs_agent ==
    <<"j", "o", "b", "s", "_", "a", "g", "e", "n", "t">>
recipes_agent ==
    <<"r", "e", "c", "i", "p", "e", "s", "_", "a", "g", "e", "n", "t">>

\* RouteUpdate with the context replaced instead of extended.
RouteUpdateNoSpread(st, label, agent) ==
    [next_agent           |-> Some(label),
     conversation_context |-> Put(EmptyDict, "agent", agent)]

\* The update every terminal returns: its own label and its own agent key.
RouteUpdate(st, label, agent) ==
    [next_agent           |-> Some(label),
     conversation_context |->
         Put(Get(st, "conversation_context", EmptyDict), "agent", agent)]

route_to_research(st) == RouteUpdate(st, research_agent, research)
\* route_to_finance writing the agent key of the function it was copied from.
route_to_finance_copied(st) == RouteUpdate(st, finance_agent, research)
route_to_finance(st)  == RouteUpdate(st, finance_agent, finance)
\* route_to_travel returning the label of another terminal.
route_to_travel_relabelled(st) == RouteUpdate(st, research_agent, travel)
route_to_travel(st)   == RouteUpdate(st, travel_agent, travel)
\* route_to_shopping returning a context of its own key only.
route_to_shopping_fresh(st) == RouteUpdateNoSpread(st, shopping_agent, shopping)
route_to_shopping(st) == RouteUpdate(st, shopping_agent, shopping)
route_to_jobs(st)     == RouteUpdate(st, jobs_agent, jobs)
route_to_recipes(st)  == RouteUpdate(st, recipes_agent, recipes)

-----------------------------------------------------------------------------
(* The graph, _build_routing_graph.                                        *)

\* workflow.add_node(name, function), for the six terminals.
TerminalNodes ==
    {research_agent, finance_agent, travel_agent,
     shopping_agent, jobs_agent, recipes_agent}

\* The function registered under a terminal's name, applied to the state.
RunTerminal(n, st) ==
    CASE n = research_agent -> route_to_research(st)
      [] n = finance_agent  -> route_to_finance(st)
      [] n = travel_agent   -> route_to_travel(st)
      [] n = shopping_agent -> route_to_shopping(st)
      [] n = jobs_agent     -> route_to_jobs(st)
      [] n = recipes_agent  -> route_to_recipes(st)

\* workflow.set_entry_point("classifier")
EntryPoint == classifier

\* get_next_node reading next_agent from an attribute of the shared
\* instance, which holds the domain the classifier of any invocation wrote
\* and no terminal has replaced yet.
get_next_node_shared(st) ==
    LET written == {j \in DOMAIN state :
                       /\ state[j].next_agent # None
                       /\ TheValue(state[j].next_agent) \in Range(domains)}
        domain == IF written # {}
                  THEN state[CHOOSE j \in written : \A k \in written : j <= k].next_agent
                  ELSE st.next_agent
    IN  Str(domain) \o <<"_", "a", "g", "e", "n", "t">>

\* get_next_node ignoring next_agent.
get_next_node_fixed(st) == research_agent

\* get_next_node: f"{domain}_agent" with domain = state.get("next_agent", "research")
get_next_node(st) ==
    LET domain == IF "next_agent" \in DOMAIN st
                  THEN st.next_agent
                  ELSE Some(research)
    IN  Str(domain) \o <<"_", "a", "g", "e", "n", "t">>

\* PathMap with the entry of the last terminal left out.
PathMapWithoutRecipes ==
    (research_agent :> research_agent) @@ (finance_agent :> finance_agent) @@
    (travel_agent :> travel_agent) @@ (shopping_agent :> shopping_agent) @@
    (jobs_agent :> jobs_agent)

\* The path map of add_conditional_edges("classifier", get_next_node, {...}).
PathMap ==
    (research_agent :> research_agent) @@ (finance_agent :> finance_agent) @@
    (travel_agent :> travel_agent) @@ (shopping_agent :> shopping_agent) @@
    (jobs_agent :> jobs_agent) @@ (recipes_agent :> recipes_agent)

\* Successor with the classifier wired to END instead of to the terminals.
SuccessorSkipping(n, st) == [raises |-> FALSE, next |-> None]

\* The nodes the graph schedules after node n has written the state st:
\* the classifier has the conditional edge, a terminal has no edge.  A key
\* that the path map lacks makes the graph raise.
Successor(n, st) ==
    IF n = classifier
    THEN LET key == get_next_node(st)
         IN  IF key \in DOMAIN PathMap
             THEN [raises |-> FALSE, next |-> Some(PathMap[key])]
             ELSE [raises |-> TRUE, next |-> None]
    ELSE [raises |-> FALSE, next |-> None]

\* The workflow _build_routing_graph assembles: the nodes added, the
\* conditional edge of the classifier and the entry point.
build_routing_graph ==
    [nodes       |-> {classifier} \cup TerminalNodes,
     branches    |-> (classifier :> PathMap),
     entry_point |-> EntryPoint]

\* workflow.compile() accepts a workflow whose entry point and whose
\* path-map targets are nodes of it; it does not look at the registry.
CompileAccepts(workflow) ==
    /\ workflow.entry_point \in workflow.nodes
    /\ \A n \in DOMAIN workflow.branches :
           /\ n \in workflow.nodes
           /\ Range(workflow.branches[n]) \subseteq workflow.nodes

\* SupervisorAgent.__init__ for the enum `enum`: self.domains are the
\* values of the enum in order, self.graph is the compiled workflow.
\* Construction raises when compile() does.
SupervisorAgent(enum) ==
    IF CompileAccepts(build_routing_graph)
    THEN [status  |-> "constructed",
          domains |-> [k \in 1..Len(enum) |-> enum[k]],
          graph   |-> Some(build_routing_graph)]
    ELSE [status  |-> "raised",
          domains |-> [k \in 1..Len(enum) |-> enum[k]],
          graph   |-> None]

\* Decision with classified_domain read under a key no node writes.
DecisionWrongKey(output, user_id) ==
    [recommended_agent |->
         Get(Get(output, "conversation_context", EmptyDict), "agent", research),
     classified_domain |->
         GetOpt(Get(output, "conversation_context", EmptyDict), "domain"),
     context |-> Get(output, "conversation_context", EmptyDict),
     user_id |-> user_id]

\* route(): the decision extracted from the graph's output.
Decision(output, user_id) ==
    [recommended_agent |->
         Get(Get(output, "conversation_context", EmptyDict), "agent", research),
     classified_domain |->
         GetOpt(Get(output, "conversation_context", EmptyDict),
                "classified_domain"),
     context |-> Get(output, "conversation_context", EmptyDict),
     user_id |-> user_id]

-----------------------------------------------------------------------------
(* The steps of one route() invocation i.  A coroutine runs without        *)
(* interruption between two awaits, so a step is the code between them.    *)

\* route(), lines 228-248: build the state and invoke the graph, which
\* schedules its entry point.
route(i, message, user_id, conversation_history, user_memories) ==
    /\ pc[i] = "idle"
    /\ args' = [args EXCEPT ![i] =
                   [message              |-> message,
                    user_id              |-> user_id,
                    conversation_history |-> conversation_history,
                    user_memories        |-> user_memories]]
    /\ state' = [state EXCEPT ![i] =
                    InitialState(message, user_id, conversation_history,
                                 user_memories)]
    /\ node' = [node EXCEPT ![i] = Some(EntryPoint)]
    /\ pc' = [pc EXCEPT ![i] = "graph"]
    /\ UNCHANGED <<elsewhere, ran, llm, result>>

\* _classify_domain up to `await self.llm.ainvoke(...)`: the prompt is built
\* from the last message of the state and the request is sent.
classify_domain(i) ==
    /\ pc[i] = "graph"
    /\ node[i] = Some(classifier)
    /\ ran' = [ran EXCEPT ![i] = Append(@, classifier)]
    /\ llm' = [llm EXCEPT ![i] =
                  [calls    |-> @.calls + 1,
                   outcome  |-> "pending",
                   prompt   |-> Some(classification_prompt(LastMessageOf(state[i]))),
                   response |-> None]]
    /\ pc' = [pc EXCEPT ![i] = "awaiting_llm"]
    /\ UNCHANGED <<elsewhere, args, state, node, result>>

\* The model answers `content`: _classify_domain finishes, the graph merges
\* its update and evaluates the conditional edge.
llm_respond(i, content) ==
    /\ pc[i] = "awaiting_llm"
    /\ LET st   == Merge(state[i], classify_domain_update(state[i], content))
           succ == Successor(classifier, st)
       IN  /\ state' = [state EXCEPT ![i] = st]
           /\ node' = [node EXCEPT ![i] = succ.next]
           /\ pc' = [pc EXCEPT ![i] =
                        IF succ.raises THEN "failed"
                        ELSE IF succ.next = None THEN "END" ELSE "graph"]
    /\ llm' = [llm EXCEPT ![i].outcome = "ok", ![i].response = Some(content)]
    /\ UNCHANGED <<elsewhere, args, ran, result>>

\* llm_error with the exception caught and the default domain substituted.
llm_error_defaulted(i) ==
    /\ pc[i] = "awaiting_llm"
    /\ LET st == Merge(state[i],
                       [next_agent           |-> Some(research),
                        conversation_context |->
                            Put(state[i].conversation_context,
                                "classified_domain", research)])
       IN  /\ state' = [state EXCEPT ![i] = st]
           /\ node' = [node EXCEPT ![i] = Some(research_agent)]
           /\ pc' = [pc EXCEPT ![i] = "graph"]
    /\ llm' = [llm EXCEPT ![i].outcome = "error"]
    /\ UNCHANGED <<elsewhere, args, ran, result>>

\* The classification call raises (timeout, network failure, malformed
\* response): nothing catches it in _classify_domain, the graph or route().
llm_error(i) ==
    /\ pc[i] = "awaiting_llm"
    /\ llm' = [llm EXCEPT ![i].outcome = "error"]
    /\ node' = [node EXCEPT ![i] = None]
    /\ pc' = [pc EXCEPT ![i] = "failed"]
    /\ UNCHANGED <<elsewhere, args, state, ran, result>>

\* route_to_agent with the terminal asking the model once more.
route_to_agent_calling(i) ==
    /\ pc[i] = "graph"
    /\ node[i] # None
    /\ TheValue(node[i]) \in TerminalNodes
    /\ LET n    == TheValue(node[i])
           st   == Merge(state[i], RunTerminal(n, state[i]))
           succ == Successor(n, st)
       IN  /\ ran' = [ran EXCEPT ![i] = Append(@, n)]
           /\ state' = [state EXCEPT ![i] = st]
           /\ node' = [node EXCEPT ![i] = succ.next]
           /\ pc' = [pc EXCEPT ![i] =
                        IF succ.raises THEN "failed"
                        ELSE IF succ.next = None THEN "END" ELSE "graph"]
    /\ llm' = [llm EXCEPT ![i].calls = @ + 1]
    /\ UNCHANGED <<elsewhere, args, result>>

\* The scheduled terminal node runs; the graph merges its update and, the
\* node having no outgoing edge, ends.
route_to_agent(i) ==
    /\ pc[i] = "graph"
    /\ node[i] # None
    /\ TheValue(node[i]) \in TerminalNodes
    /\ LET n    == TheValue(node[i])
           st   == Merge(state[i], RunTerminal(n, state[i]))
           succ == Successor(n, st)
       IN  /\ ran' = [ran EXCEPT ![i] = Append(@, n)]
           /\ state' = [state EXCEPT ![i] = st]
           /\ node' = [node EXCEPT ![i] = succ.next]
           /\ pc' = [pc EXCEPT ![i] =
                        IF succ.raises THEN "failed"
                        ELSE IF succ.next = None THEN "END" ELSE "graph"]
    /\ UNCHANGED <<elsewhere, args, llm, result>>

\* route(), lines 250-255: the decision is read from the graph's output.
route_return(i) ==
    /\ pc[i] = "END"
    /\ result' = [result EXCEPT ![i] = Some(Decision(state[i], args[i].user_id))]
    /\ pc' = [pc EXCEPT ![i] = "returned"]
    /\ UNCHANGED <<elsewhere, args, state, node, ran, llm>>

-----------------------------------------------------------------------------
(* The chat tab of app_v2.py: one turn from the user's input to the        *)
(* assistant entry, in the steps its awaits cut it into.                   *)

SummaryChars == 300
MinAudioBytes == 1000
MaxTurns == 2
MaxRecordings == 2
MaxChunks == 2
MaxAnamCalls == 2

\* s[:n]
Take(s, n) == SubSeq(s, 1, IF Len(s) < n THEN Len(s) ELSE n)

\* response_text[:300] + "..."
Truncation(response_text) == Take(response_text, SummaryChars) \o <<".", ".", ".">>

no_response ==
    <<"N", "o", " ", "r", "e", "s", "p", "o", "n", "s", "e", " ", "r",
      "e", "c", "e", "i", "v", "e", "d", ".">>

unknown == <<"u", "n", "k", "n", "o", "w", "n">>
test_agent == <<"t", "e", "s", "t", "_", "a", "g", "e", "n", "t">>

\* f"Backend connection failed: {stream_error}. This is a test response to
\* verify the UI works."
BackendFailedText(stream_error) ==
    <<"B", "a", "c", "k", "e", "n", "d", " ", "c", "o", "n", "n", "e",
      "c", "t", "i", "o", "n", " ", "f", "a", "i", "l", "e", "d", ":",
      " ">>
    \o stream_error \o
    <<".", " ", "T", "h", "i", "s", " ", "i", "s", " ", "a", " ", "t",
      "e", "s", "t", " ", "r", "e", "s", "p", "o", "n", "s", "e", " ",
      "t", "o", " ", "v", "e", "r", "i", "f", "y", " ", "t", "h", "e",
      " ", "U", "I", " ", "w", "o", "r", "k", "s", ".">>

\* The session state of the script's first run, lines 67-84.
InitialSession ==
    [session_id           |-> None,
     conversation_history |-> <<>>,
     last_agent           |-> None,
     last_processed_audio |-> None,
     unified_voice_input  |-> None,
     anam_session_token   |-> None]

\* No turn has been started.
NoTurn ==
    [pc            |-> "ready",
     count         |-> 0,
     user_input    |-> None,
     payload       |-> None,
     backend       |-> "none",
     response_text |-> None,
     agent_used    |-> None,
     summarizer    |-> "none",
     summary_text  |-> None,
     audio_bytes   |-> None,
     tts_success   |-> FALSE,
     audio_tab     |-> "none",
     avatar_tab    |-> "none",
     voice_audio   |-> None,
     text_input_val |-> None,
     stt           |-> "none",
     is_voice      |-> FALSE]

\* "Initialize New Session": the identifiers are set and the history is
\* emptied; last_agent is not among the fields it resets.  The rerun it
\* ends with discards what the previous run displayed.
initialize_session ==
    /\ turn.pc = "ready"
    /\ session_state' =
           [session_state EXCEPT !.session_id = Some("session-demo-user"),
                                 !.anam_session_token = None,
                                 !.conversation_history = <<>>]
    /\ turn' = [NoTurn EXCEPT !.count = turn.count]
    /\ UNCHANGED <<anam, chat, settings, router, tool>>

\* A run with input: the user entry is appended, the payload is built with
\* the history before it and the request to the backend is sent.
submit(user_input) ==
    /\ turn.pc = "ready"
    /\ session_state.session_id # None
    /\ turn.count < MaxTurns
    /\ user_input # <<>>
    /\ session_state' =
           [session_state EXCEPT !.conversation_history =
               Append(@, [role |-> "user", content |-> user_input])]
    /\ turn' = [NoTurn EXCEPT
                   !.pc = "streaming",
                   !.count = turn.count + 1,
                   !.user_input = Some(user_input),
                   !.payload = Some([message |-> user_input,
                                     conversation_history |->
                                         session_state.conversation_history])]
    /\ UNCHANGED <<anam, chat, settings, router, tool>>

\* hash(voice_audio.getvalue()): recordings are numbered, and two of them
\* may have the same hash.
hash(recording) == recording % 2

\* VoiceService.transcribe_audio for the transcription request `request`:
\* reading an attribute the Settings instance does not have raises; with
\* no key "" is returned; an exception of the request gives "", an answer
\* gives its text.
transcribe_audio(request) ==
    IF "groq_api" \notin DOMAIN settings
    THEN [raises |-> TRUE, value |-> <<>>]
    ELSE IF settings["groq_api"] = None
         THEN [raises |-> FALSE, value |-> <<>>]
         ELSE IF request.raises
              THEN [raises |-> FALSE, value |-> <<>>]
              ELSE [raises |-> FALSE, value |-> request.value]

\* The user records: the widget holds a new recording.
record_voice ==
    /\ turn.pc = "ready"
    /\ session_state.session_id # None
    /\ LET next == IF session_state.unified_voice_input = None THEN 1
                   ELSE TheValue(session_state.unified_voice_input) + 1
       IN  /\ next <= MaxRecordings
           /\ session_state' =
                  [session_state EXCEPT !.unified_voice_input = Some(next)]
    /\ turn' = [NoTurn EXCEPT !.count = turn.count]
    /\ UNCHANGED <<anam, chat, settings, router, tool>>

\* One run of the chat tab, lines 205-270, with the recording the widget
\* holds and the text `text_input_val`: a recording whose hash is not the
\* last processed one is transcribed; a transcription that raises ends the
\* run; a text overrides the transcription; with an input the user entry
\* is appended and the request to the backend is sent.
run(text_input_val, request) ==
    /\ turn.pc = "ready"
    /\ session_state.session_id # None
    /\ turn.count < MaxTurns
    /\ LET voice_audio == session_state.unified_voice_input
           fresh == /\ voice_audio # None
                    /\ Some(hash(TheValue(voice_audio))) #
                           session_state.last_processed_audio
           transcription == transcribe_audio(request)
           heard == fresh /\ ~transcription.raises /\ transcription.value # <<>>
           user_input == IF text_input_val # None /\ TheValue(text_input_val) # <<>>
                         THEN text_input_val
                         ELSE IF heard THEN Some(transcription.value) ELSE None
           inputs == [NoTurn EXCEPT
                         !.count = turn.count,
                         !.voice_audio = voice_audio,
                         !.text_input_val = text_input_val,
                         !.stt = IF ~fresh THEN "none"
                                 ELSE IF transcription.raises THEN "raised"
                                 ELSE IF transcription.value = <<>> THEN "empty"
                                 ELSE "text"]
       IN  IF fresh /\ transcription.raises
           THEN /\ turn' = inputs
                /\ UNCHANGED session_state
           ELSE /\ turn' =
                    IF user_input = None THEN inputs
                    ELSE [inputs EXCEPT
                             !.pc = "streaming",
                             !.count = turn.count + 1,
                             !.user_input = user_input,
                             !.is_voice = heard /\ user_input # text_input_val,
                             !.payload =
                                 Some([message |-> TheValue(user_input),
                                       conversation_history |->
                                           session_state.conversation_history])]
                /\ session_state' =
                       [session_state EXCEPT
                           !.last_processed_audio =
                               IF heard THEN Some(hash(TheValue(voice_audio)))
                               ELSE @,
                           !.conversation_history =
                               IF user_input = None THEN @
                               ELSE Append(@, [role |-> "user",
                                               content |-> TheValue(user_input)])]
    /\ UNCHANGED <<anam, chat, settings, router, tool>>

\* Lines 298-325 up to the summarization call: a response that is not
\* blank is handed to the summarizer, a blank one gets the fixed summary.
AfterStream(response_text, agent_used, backend) ==
    IF response_text # <<>> /\ Strip(response_text) # <<>>
    THEN [turn EXCEPT !.pc = "summarizing",
                      !.backend = backend,
                      !.response_text = Some(response_text),
                      !.agent_used = Some(agent_used)]
    ELSE [turn EXCEPT !.pc = "synthesizing",
                      !.backend = backend,
                      !.response_text = Some(response_text),
                      !.agent_used = Some(agent_used),
                      !.summary_text = Some(no_response)]

\* stream_response() ends normally having accumulated `text` from `agent`.
backend_streamed(text, agent) ==
    /\ turn.pc = "streaming"
    /\ turn' = AfterStream(text, agent, "ok")
    /\ UNCHANGED <<anam, chat, settings, router, session_state, tool>>

\* stream_response() catches an exception of the request.
backend_failed(stream_error) ==
    /\ turn.pc = "streaming"
    /\ turn' = AfterStream(BackendFailedText(stream_error), test_agent, "failed")
    /\ UNCHANGED <<anam, chat, settings, router, session_state, tool>>

\* llm_service.summarize_text returns `summary`.
summarize_returns(summary) ==
    /\ turn.pc = "summarizing"
    /\ turn' = [turn EXCEPT
                   !.pc = "synthesizing",
                   !.summarizer = IF summary = <<>> THEN "empty" ELSE "returned",
                   !.summary_text =
                       IF summary = <<>>
                       THEN Some(Truncation(TheValue(turn.response_text)))
                       ELSE Some(summary)]
    /\ UNCHANGED <<anam, chat, settings, router, session_state, tool>>

\* summarize_raises with the exception left to the handler of the turn.
summarize_raises_unhandled ==
    /\ turn.pc = "summarizing"
    /\ turn' = [turn EXCEPT !.pc = "error", !.summarizer = "raised"]
    /\ UNCHANGED <<anam, chat, settings, router, session_state, tool>>

\* llm_service.summarize_text raises.
summarize_raises ==
    /\ turn.pc = "summarizing"
    /\ turn' = [turn EXCEPT
                   !.pc = "synthesizing",
                   !.summarizer = "raised",
                   !.summary_text =
                       Some(Truncation(TheValue(turn.response_text)))]
    /\ UNCHANGED <<anam, chat, settings, router, session_state, tool>>

\* VoiceService.text_to_speech: the bytes gTTS wrote, None when anything
\* in the synthesis raises.  Bytes are modelled by their length.
text_to_speech(synthesis) ==
    IF synthesis.raises THEN None ELSE Some(synthesis.length)

\* avatar_active: bool(st.session_state.anam_session_token)
avatar_active ==
    /\ session_state.anam_session_token # None
    /\ TheValue(session_state.anam_session_token) # EmptyDict

\* The avatar tab, lines 365-384: get_embed_html calls
\* session_token.startswith, which a value that is not a str does not have.
AvatarTabRaises ==
    /\ avatar_active
    /\ Get(TheValue(session_state.anam_session_token), "sessionToken",
           PyStr(<<"d", "e", "m", "o", "-", "t", "o", "k", "e", "n">>)).type
       # "str"

\* CompleteTurn with the audio stored whatever its length.
CompleteTurnKeepingAudio(audio_bytes, tts_success) ==
    IF AvatarTabRaises
    THEN /\ turn' = [turn EXCEPT !.pc = "ready",
                                 !.audio_bytes = audio_bytes,
                                 !.tts_success = tts_success,
                                 !.audio_tab = IF audio_bytes # None
                                               THEN "audio" ELSE "not_available",
                                 !.avatar_tab = "raised"]
         /\ UNCHANGED session_state
    ELSE /\ turn' = [turn EXCEPT !.pc = "ready",
                                 !.audio_bytes = audio_bytes,
                                 !.tts_success = tts_success,
                                 !.audio_tab = IF audio_bytes # None
                                               THEN "audio" ELSE "not_available",
                                 !.avatar_tab = IF avatar_active
                                                THEN "shown" ELSE "none"]
         /\ session_state' =
                [session_state EXCEPT
                    !.conversation_history =
                        Append(@, [role        |-> "assistant",
                                   content     |-> TheValue(turn.response_text),
                                   agent       |-> TheValue(turn.agent_used),
                                   summary     |-> TheValue(turn.summary_text),
                                   audio_bytes |-> audio_bytes]),
                    !.last_agent = turn.agent_used]

\* Lines 335-403 after the speech call: the audio tab plays the audio or
\* says "Audio not available", the avatar tab is filled when an avatar
\* session is stored, the assistant entry is appended and last_agent set.
\* An exception of the avatar tab is caught by the handler of the turn,
\* which shows it: the lines after the tab do not run.
CompleteTurn(audio_bytes, tts_success) ==
    IF AvatarTabRaises
    THEN /\ turn' = [turn EXCEPT !.pc = "ready",
                                 !.audio_bytes = audio_bytes,
                                 !.tts_success = tts_success,
                                 !.audio_tab =
                                     IF /\ audio_bytes # None
                                        /\ TheValue(audio_bytes) > 0
                                        /\ tts_success
                                     THEN "audio" ELSE "not_available",
                                 !.avatar_tab = "raised"]
         /\ UNCHANGED session_state
    ELSE /\ turn' = [turn EXCEPT !.pc = "ready",
                                 !.audio_bytes = audio_bytes,
                                 !.tts_success = tts_success,
                                 !.audio_tab =
                                     IF /\ audio_bytes # None
                                        /\ TheValue(audio_bytes) > 0
                                        /\ tts_success
                                     THEN "audio" ELSE "not_available",
                                 !.avatar_tab = IF avatar_active
                                                THEN "shown" ELSE "none"]
         /\ session_state' =
                [session_state EXCEPT
                    !.conversation_history =
                        Append(@, [role        |-> "assistant",
                                   content     |-> TheValue(turn.response_text),
                                   agent       |-> TheValue(turn.agent_used),
                                   summary     |-> TheValue(turn.summary_text),
                                   audio_bytes |-> IF tts_success
                                                   THEN audio_bytes ELSE None]),
                    !.last_agent = turn.agent_used]

\* voice_service.text_to_speech returns `audio_bytes`.
text_to_speech_returns(audio_bytes) ==
    /\ turn.pc = "synthesizing"
    /\ CompleteTurn(audio_bytes,
                    audio_bytes # None /\ TheValue(audio_bytes) >= MinAudioBytes)
    /\ UNCHANGED <<anam, chat, settings, router, tool>>

\* The speech call raises.
text_to_speech_raises ==
    /\ turn.pc = "synthesizing"
    /\ CompleteTurn(None, FALSE)
    /\ UNCHANGED <<anam, chat, settings, router, tool>>

-----------------------------------------------------------------------------
(* llm_service.py: LLMService.stream_chat_completion, an async generator.  *)
(* Texts are tuples of characters; what the consumer has received is the   *)
(* sequence of the fragments yielded.                                      *)

\* stream_chat_completion has not been called.
NoChat ==
    [pc            |-> "idle",
     messages      |-> <<>>,
     requests      |-> <<>>,
     chunks        |-> 0,
     received      |-> <<>>,
     stream_failed |-> FALSE,
     fallback      |-> "none",
     content       |-> <<>>,
     raised        |-> FALSE]

\* openai_messages: the system message, then the caller's messages.
OpenAIMessages(messages, system_prompt) ==
    <<[role |-> "system", content |-> system_prompt]>> \o messages

\* The request of client.chat.completions.create.
ChatRequest(openai_messages, stream) ==
    [model |-> "gpt-oss-120b", messages |-> openai_messages, stream |-> stream]

\* The call up to the first await: the streaming request is sent.
stream_chat_completion(messages, system_prompt) ==
    /\ chat.pc = "idle"
    /\ chat.requests = <<>>
    /\ chat' = [NoChat EXCEPT
                   !.pc = "awaiting_stream",
                   !.messages = OpenAIMessages(messages, system_prompt),
                   !.requests =
                       <<ChatRequest(OpenAIMessages(messages, system_prompt),
                                     TRUE)>>]
    /\ UNCHANGED <<anam, settings, router, session_state, turn, tool>>

\* The streaming request returns the stream.
stream_opened ==
    /\ chat.pc = "awaiting_stream"
    /\ chat' = [chat EXCEPT !.pc = "streaming"]
    /\ UNCHANGED <<anam, settings, router, session_state, turn, tool>>

\* The stream delivers its next chunk; a chunk with content is yielded.
stream_chunk(content) ==
    /\ chat.pc = "streaming"
    /\ chat' = [chat EXCEPT
                   !.chunks = @ + 1,
                   !.received = IF content # <<>> THEN Append(@, content) ELSE @]
    /\ UNCHANGED <<anam, settings, router, session_state, turn, tool>>

\* The stream is exhausted: the generator returns.
stream_ends ==
    /\ chat.pc = "streaming"
    /\ chat' = [chat EXCEPT !.pc = "done"]
    /\ UNCHANGED <<anam, settings, router, session_state, turn, tool>>

\* The streaming request or the iteration of the stream raises: the
\* handler sends the non-streaming request with the same messages.
stream_raises ==
    /\ chat.pc \in {"awaiting_stream", "streaming"}
    /\ chat' = [chat EXCEPT
                   !.pc = "awaiting_fallback",
                   !.stream_failed = TRUE,
                   !.requests = Append(@, ChatRequest(chat.messages, FALSE))]
    /\ UNCHANGED <<anam, settings, router, session_state, turn, tool>>

\* The non-streaming request returns a response with `content`, which is
\* yielded when there is any; the generator returns.
fallback_returns(content) ==
    /\ chat.pc = "awaiting_fallback"
    /\ chat' = [chat EXCEPT
                   !.pc = "done",
                   !.fallback = "returned",
                   !.content = content,
                   !.received = IF content # <<>> THEN Append(@, content) ELSE @]
    /\ UNCHANGED <<anam, settings, router, session_state, turn, tool>>

\* fallback_raises with the exception swallowed.
fallback_raises_swallowed ==
    /\ chat.pc = "awaiting_fallback"
    /\ chat' = [chat EXCEPT !.pc = "done", !.fallback = "raised"]
    /\ UNCHANGED <<anam, settings, router, session_state, turn, tool>>

\* The non-streaming request raises inside the handler: nothing catches it.
fallback_raises ==
    /\ chat.pc = "awaiting_fallback"
    /\ chat' = [chat EXCEPT !.pc = "failed", !.fallback = "raised",
                             !.raised = TRUE]
    /\ UNCHANGED <<anam, settings, router, session_state, turn, tool>>

-----------------------------------------------------------------------------
(* anam_service.py: AnamService, and the "Start Avatar Session" button of  *)
(* app_v2.py that calls it.  A session is a dict: a function on its keys.  *)

\* AnamService(): the global instance.
AnamService ==
    [api_key   |-> settings.anam_api_key,
     base_url  |-> settings.anam_api_base_url,
     avatar_id |-> settings.anam_avatar_id,
     voice_id  |-> settings.anam_voice_id,
     enabled   |-> settings.anam_api_key # ""]

\* No method of AnamService has been called.
NoAnamCall ==
    [pc       |-> "idle",
     count    |-> 0,
     op       |-> "none",
     args     |-> <<>>,
     requests |-> <<>>,
     failure  |-> "none",
     returned |-> None,
     raised   |-> FALSE]

AIAssistant == <<"A", "I", " ", "A", "s", "s", "i", "s", "t", "a", "n", "t">>

\* persona_name.lower().replace(' ', '-')
DemoName(persona_name) == Replace(Lower(persona_name), " ", "-")

\* _create_demo_session
create_demo_session(persona_name, avatar_id, voice_id) ==
    [isDemo       |-> TRUE,
     sessionToken |-> PyStr(<<"d", "e", "m", "o", "-", "t", "o", "k", "e", "n",
                              "-">> \o DemoName(persona_name)),
     sessionId    |-> PyStr(<<"d", "e", "m", "o", "-", "s", "e", "s", "s", "i",
                              "o", "n", "-">> \o DemoName(persona_name)),
     personaName  |-> persona_name,
     avatarId     |-> IF avatar_id # "" THEN avatar_id ELSE "demo-avatar",
     voiceId      |-> IF voice_id # "" THEN voice_id ELSE "demo-voice",
     personaConfig |->
         [name     |-> persona_name,
          avatarId |-> IF avatar_id # "" THEN avatar_id ELSE "demo-avatar",
          voiceId  |-> IF voice_id # "" THEN voice_id ELSE "demo-voice",
          mode     |-> "demo"]]

\* The try block of create_session_token after the request was sent:
\* `outcome` says which call raised, if any, and what response.json()
\* returned.  Item assignment raises on a value that is not a dict.
PostSucceeds(outcome) ==
    outcome.raises = "none" /\ outcome.body.type = "dict"

\* create_session_token from the response on: the response's dict with the
\* metadata added, or the demo session after any exception.
SessionOf(persona_name, outcome) ==
    IF PostSucceeds(outcome)
    THEN Put(Put(Put(Put(outcome.body.items, "isDemo", FALSE),
                     "personaName", persona_name),
                 "avatarId", AnamService.avatar_id),
             "voiceId", AnamService.voice_id)
    ELSE create_demo_session(persona_name, AnamService.avatar_id,
                             AnamService.voice_id)

\* "Start Avatar Session", lines 601-623: `if session_data:` stores the
\* session, and a dict with keys is true.
StoreSession(session_data) ==
    IF session_data # None /\ TheValue(session_data) # EmptyDict
    THEN [session_state EXCEPT !.anam_session_token = session_data]
    ELSE session_state

\* "Start Avatar Session" calls create_session_token(persona_name): with
\* the key set the request is sent, without it the demo session is returned
\* at once and stored.
create_session_token(persona_name) ==
    /\ anam.pc = "idle"
    /\ anam.count < MaxAnamCalls
    /\ turn.pc = "ready"
    /\ session_state.session_id # None
    /\ session_state.anam_session_token = None
    /\ IF AnamService.enabled
       THEN /\ anam' = [NoAnamCall EXCEPT
                           !.pc = "awaiting_post",
                           !.count = anam.count + 1,
                           !.op = "create_session_token",
                           !.args = <<persona_name>>,
                           !.requests = <<"POST /v1/auth/session-token">>]
            /\ UNCHANGED session_state
       ELSE LET session_data ==
                    Some(create_demo_session(persona_name,
                                             AnamService.avatar_id,
                                             AnamService.voice_id))
            IN  /\ anam' = [NoAnamCall EXCEPT
                               !.count = anam.count + 1,
                               !.op = "create_session_token",
                               !.args = <<persona_name>>,
                               !.returned = session_data]
                /\ session_state' = StoreSession(session_data)
    /\ UNCHANGED <<chat, settings, router, turn, tool>>

\* create_session_token_done with None returned after a failure.
create_session_token_done_or_none(outcome) ==
    /\ anam.pc = "awaiting_post"
    /\ LET session_data ==
               IF PostSucceeds(outcome)
               THEN Some(SessionOf(anam.args[1], outcome))
               ELSE None
       IN  /\ anam' = [anam EXCEPT
                          !.pc = "idle",
                          !.failure = IF PostSucceeds(outcome) THEN "none"
                                      ELSE IF outcome.raises = "none"
                                           THEN "item_assignment"
                                           ELSE outcome.raises,
                          !.returned = session_data]
           /\ session_state' = StoreSession(session_data)
    /\ UNCHANGED <<chat, settings, router, turn, tool>>

\* The request of create_session_token completes with `outcome`, the
\* session is returned and the button stores it.
create_session_token_done(outcome) ==
    /\ anam.pc = "awaiting_post"
    /\ LET session_data == Some(SessionOf(anam.args[1], outcome))
       IN  /\ anam' = [anam EXCEPT
                          !.pc = "idle",
                          !.failure = IF PostSucceeds(outcome) THEN "none"
                                      ELSE IF outcome.raises = "none"
                                           THEN "item_assignment"
                                           ELSE outcome.raises,
                          !.returned = session_data]
           /\ session_state' = StoreSession(session_data)
    /\ UNCHANGED <<chat, settings, router, turn, tool>>

\* end_session(session_id): True at once when the service is disabled or
\* the session is a demo session, else the DELETE request is sent.
end_session(session_id) ==
    /\ anam.pc = "idle"
    /\ anam.count < MaxAnamCalls
    /\ IF ~AnamService.enabled \/ StartsWith(session_id, <<"d", "e", "m", "o", "-">>)
       THEN anam' = [NoAnamCall EXCEPT
                        !.count = anam.count + 1,
                        !.op = "end_session",
                        !.args = <<session_id>>,
                        !.returned = Some(TRUE)]
       ELSE anam' = [NoAnamCall EXCEPT
                        !.pc = "awaiting_delete",
                        !.count = anam.count + 1,
                        !.op = "end_session",
                        !.args = <<session_id>>,
                        !.requests = <<"DELETE /v1/sessions/">>]
    /\ UNCHANGED <<chat, settings, router, session_state, turn, tool>>

\* The request of end_session completes: True, or False after an exception
\* of the request or of raise_for_status.
end_session_done(raises) ==
    /\ anam.pc = "awaiting_delete"
    /\ anam' = [anam EXCEPT
                   !.pc = "idle",
                   !.failure = IF raises THEN "delete" ELSE "none",
                   !.returned = Some(~raises)]
    /\ UNCHANGED <<chat, settings, router, session_state, turn, tool>>

-----------------------------------------------------------------------------
(* tools_service.py: Mem0Service and SerpApiService.                       *)

MaxToolCalls == 2

\* What a call of the client library or of httpx does: it raises or it
\* returns a value.
Raises == [raises |-> TRUE, value |-> PyNone]
Returns(v) == [raises |-> FALSE, value |-> v]

\* No call of tools_service has been made.
NoCall ==
    [pc       |-> "idle",
     count    |-> 0,
     op       |-> "none",
     args     |-> <<>>,
     requests |-> <<>>,
     failed   |-> FALSE,
     returned |-> None,
     raised   |-> FALSE]

\* The method `op` called with `call_args` returns `v` after the client
\* calls `requests`, the last of which raised iff `failed`.
ToolReturn(op, call_args, requests, failed, v) ==
    [pc       |-> "idle",
     count    |-> tool.count + 1,
     op       |-> op,
     args     |-> call_args,
     requests |-> requests,
     failed   |-> failed,
     returned |-> Some(v),
     raised   |-> FALSE]

\* The method `op` lets the exception of its last client call escape.
ToolRaise(op, call_args, requests) ==
    [pc       |-> "idle",
     count    |-> tool.count + 1,
     op       |-> op,
     args     |-> call_args,
     requests |-> requests,
     failed   |-> TRUE,
     returned |-> None,
     raised   |-> TRUE]

\* An Optional[str] argument as it is logged.
Str_(o) == IF o = None THEN "None" ELSE TheValue(o)

CanCall == tool.pc = "idle" /\ tool.count < MaxToolCalls

\* Mem0Service.add_memory: client.add, `result if result else {}`, and {}
\* on any exception.
add_memory(user_id, add) ==
    /\ CanCall
    /\ tool' = ToolReturn("add_memory", <<user_id>>, <<"add">>, add.raises,
                          IF add.raises \/ ~PyTruthy(add.value)
                          THEN PyDict(EmptyDict) ELSE add.value)
    /\ UNCHANGED <<anam, chat, settings, router, session_state, turn>>

\* retrieve_memories without the outer try: an exception of search escapes.
retrieve_memories_unguarded(user_id, query, get_all, search) ==
    /\ CanCall
    /\ LET searches == query # None /\ TheValue(query) # ""
           retries  == ~searches /\ get_all.raises
           requests == IF searches THEN <<"search">>
                       ELSE IF retries THEN <<"get_all", "search">>
                       ELSE <<"get_all">>
           last     == IF searches \/ retries THEN search ELSE get_all
       IN  tool' = IF last.raises
                   THEN ToolRaise("retrieve_memories",
                                  <<user_id, Str_(query)>>, requests)
                   ELSE ToolReturn("retrieve_memories",
                                   <<user_id, Str_(query)>>, requests, FALSE,
                                   IF PyTruthy(last.value)
                                   THEN last.value ELSE PyList(<<>>))
    /\ UNCHANGED <<anam, chat, settings, router, session_state, turn>>

\* Mem0Service.retrieve_memories: client.search when a query is given,
\* else client.get_all and, when that raises, client.search("*");
\* `results if results else []`, and [] on any exception that is left.
retrieve_memories(user_id, query, get_all, search) ==
    /\ CanCall
    /\ LET searches == query # None /\ TheValue(query) # ""
           retries  == ~searches /\ get_all.raises
           requests == IF searches THEN <<"search">>
                       ELSE IF retries THEN <<"get_all", "search">>
                       ELSE <<"get_all">>
           last     == IF searches \/ retries THEN search ELSE get_all
       IN  tool' = ToolReturn("retrieve_memories",
                              <<user_id, Str_(query)>>, requests, last.raises,
                              IF last.raises \/ ~PyTruthy(last.value)
                              THEN PyList(<<>>) ELSE last.value)
    /\ UNCHANGED <<anam, chat, settings, router, session_state, turn>>

\* Mem0Service.delete_memory: True, and False on any exception.
delete_memory(memory_id, delete) ==
    /\ CanCall
    /\ tool' = ToolReturn("delete_memory", <<memory_id>>, <<"delete">>,
                          delete.raises,
                          IF delete.raises THEN PyFalse ELSE PyTrue)
    /\ UNCHANGED <<anam, chat, settings, router, session_state, turn>>

\* The key of the response each SerpApiService.search_* reads.
ResultKey ==
    ("search_news" :> "news_results") @@ ("search_flights" :> "flights") @@
    ("search_hotels" :> "hotels") @@ ("search_jobs" :> "jobs_results") @@
    ("search_recipes" :> "local_results")

\* SerpApiService.search_* up to `await client.get(...)`.
search(op, query) ==
    /\ CanCall
    /\ tool' = [NoCall EXCEPT !.pc = "awaiting", !.count = tool.count,
                              !.op = op, !.args = <<query>>,
                              !.requests = <<"get">>]
    /\ UNCHANGED <<anam, chat, settings, router, session_state, turn>>

\* SerpApiService.search_* after the await: the request raises or returns
\* a response whose json() raises or returns `data`; data.get(key, []) is
\* returned, and [] on any exception, that of a body that is no object
\* included.
search_done(get, json) ==
    /\ tool.pc = "awaiting"
    /\ LET fails == \/ get.raises
                    \/ json.raises
                    \/ json.value.type # "dict"
       IN  tool' = ToolReturn(tool.op, tool.args, tool.requests, fails,
                              IF fails THEN PyList(<<>>)
                              ELSE Get(json.value.items, ResultKey[tool.op],
                                       PyList(<<>>)))
    /\ UNCHANGED <<anam, chat, settings, router, session_state, turn>>

-----------------------------------------------------------------------------
(* Inputs.                                                                 *)

Messages == {"", "q1"}
UserIds == {"", "u1"}
Roles == {"user", "assistant"}
HistoryTexts == {"h1"}

RECURSIVE SeqsUpTo(_, _)
SeqsUpTo(S, n) ==
    IF n = 0 THEN {<<>>}
    ELSE LET shorter == SeqsUpTo(S, n - 1)
         IN  shorter \cup {Append(q, x) : q \in shorter, x \in S}

\* conversation_history: omitted, or a list of {role, content} entries.
Histories ==
    {None} \cup
    {Some(h) : h \in SeqsUpTo([role : Roles, content : HistoryTexts], MaxHist)}

\* user_memories: omitted, or a dict.
UserMemories == {None, Some([diet |-> "vegan"])}

\* What the model may answer: each registered identifier, an identifier
\* with other case and surrounding whitespace, the empty text, an
\* identifier with punctuation or a second word, an unregistered word.
RawResponses ==
    Range(domains) \cup
    {<<" ", "F", "i", "n", "a", "n", "c", "e", "\n">>,
     <<>>,
     <<"f", "i", "n", "a", "n", "c", "e", ".">>,
     <<"j", "o", "b", "s", " ", "a", "g", "e", "n", "t">>,
     <<"s", "t", "o", "c", "k", "s">>}

\* The smaller sets used where several invocations are modelled.
FewMessages == {"q1", "q2"}
FewUserIds == {"u1", "u2"}
FewHistories == {None, Some(<<[role |-> "assistant", content |-> "h1"]>>)}
FewResponses == {finance, <<"T", "r", "a", "v", "e", "l">>, <<"s", "t", "o", "c", "k", "s">>}

-----------------------------------------------------------------------------
(* Specifications.                                                         *)

\* The chat page has not run and tools_service has not been called.
NothingElse ==
    /\ session_state = InitialSession
    /\ turn = NoTurn
    /\ tool = NoCall
    /\ settings = Settings("anam-key", None)
    /\ chat = NoChat
    /\ anam = NoAnamCall

\* The global supervisor_agent after construction, with n route() calls
\* still to be made on it.
InitCalls(n) ==
    /\ pc = [i \in 1..n |-> "idle"]
    /\ args = [i \in 1..n |->
                 [message |-> "", user_id |-> "",
                  conversation_history |-> None, user_memories |-> None]]
    /\ state = [i \in 1..n |-> InitialState("", "", None, None)]
    /\ node = [i \in 1..n |-> None]
    /\ ran = [i \in 1..n |-> <<>>]
    /\ llm = [i \in 1..n |->
                [calls |-> 0, outcome |-> "none", prompt |-> None,
                 response |-> None]]
    /\ result = [i \in 1..n |-> None]
    /\ supervisor_agent = SupervisorAgent(AgentDomain)
    /\ NothingElse

Finished(i) == pc[i] \in {"returned", "failed"}

\* One invocation, every input and every answer of the model.
Init == InitCalls(1)

Invocations == DOMAIN pc

\* The steps every specification shares.
classify_domain_step == \E i \in Invocations : classify_domain(i)
llm_error_step == \E i \in Invocations : llm_error(i)
route_to_agent_step == \E i \in Invocations : route_to_agent(i)
route_return_step == \E i \in Invocations : route_return(i)

Next ==
    \/ \E i \in Invocations, m \in Messages, u \in UserIds,
          h \in Histories, mem \in UserMemories :
           route(i, m, u, h, mem)
    \/ classify_domain_step
    \/ \E i \in Invocations, content \in RawResponses : llm_respond(i, content)
    \/ llm_error_step
    \/ route_to_agent_step
    \/ route_return_step

Spec == Init /\ [][Next]_vars

\* MaxConcurrent invocations on the shared instance, started in the order
\* of their numbers and interleaved freely from then on.
InitConcurrent == InitCalls(MaxConcurrent)

NextConcurrent ==
    \/ \E i \in Invocations, m \in FewMessages, u \in FewUserIds :
           /\ \A j \in 1..(i - 1) : pc[j] # "idle"
           /\ route(i, m, u, None, None)
    \/ classify_domain_step
    \/ \E i \in Invocations, content \in FewResponses : llm_respond(i, content)
    \/ llm_error_step
    \/ route_to_agent_step
    \/ route_return_step

SpecConcurrent == InitConcurrent /\ [][NextConcurrent]_vars

\* MaxSequential invocations on the shared instance, each started after the
\* one before it has returned or failed.
InitSequential == InitCalls(MaxSequential)

NextSequential ==
    \/ \E i \in Invocations, m \in FewMessages, h \in FewHistories :
           /\ \A j \in 1..(i - 1) : Finished(j)
           /\ route(i, m, "u1", h, None)
    \/ classify_domain_step
    \/ \E i \in Invocations, content \in FewResponses : llm_respond(i, content)
    \/ llm_error_step
    \/ route_to_agent_step
    \/ route_return_step

SpecSequential == InitSequential /\ [][NextSequential]_vars

\* One invocation under the scheduling the event loop gives it: a step of
\* the program that is ready to run does run.  The answer of the model and
\* the failure of the request come from outside; _init_llm passes no
\* timeout and route() wraps the call in none, so neither is ever due.
SpecLive ==
    /\ Init
    /\ [][Next]_vars
    /\ WF_vars(classify_domain_step)
    /\ WF_vars(route_to_agent_step)
    /\ WF_vars(route_return_step)

\* The values of next_agent the conditional edge is applied to: unset, each
\* registered domain, and strings that are no registered domain.
EdgeValues ==
    {None} \cup {Some(d) : d \in Range(AgentDomain)} \cup
    {Some(<<"s", "t", "o", "c", "k", "s">>), Some(research_agent), Some(<<>>)}

\* The conditional edge applied to the state the classifier left.
dispatch_edge(i) ==
    /\ pc[i] = "edge"
    /\ LET succ == Successor(classifier, state[i])
       IN  /\ node' = [node EXCEPT ![i] = succ.next]
           /\ pc' = [pc EXCEPT ![i] =
                        IF succ.raises THEN "failed"
                        ELSE IF succ.next = None THEN "END" ELSE "graph"]
    /\ UNCHANGED <<elsewhere, args, state, ran, llm, result>>

\* The graph of one invocation at its conditional edge, the classifier
\* having run, with any of EdgeValues in next_agent.
InitEdge ==
    /\ supervisor_agent = SupervisorAgent(AgentDomain)
    /\ NothingElse
    /\ \E m \in Messages, u \in UserIds, v \in EdgeValues :
           /\ pc = <<"edge">>
           /\ args = <<[message |-> m, user_id |-> u,
                        conversation_history |-> None, user_memories |-> None]>>
           /\ state = <<Merge(InitialState(m, u, None, None),
                              [next_agent |-> v])>>
           /\ node = <<Some(classifier)>>
           /\ ran = << <<classifier>> >>
           /\ llm = <<[calls |-> 1, outcome |-> "ok",
                       prompt |-> Some(classification_prompt(m)),
                       response |-> Some(Str(v))]>>
           /\ result = <<None>>

NextEdge ==
    \/ \E i \in Invocations : dispatch_edge(i)
    \/ route_to_agent_step
    \/ route_return_step

SpecEdge == InitEdge /\ [][NextEdge]_vars

\* The module being imported: the enum is one of Registries, the global
\* instance is constructed from it and one route() call is made on it.
weather == <<"w", "e", "a", "t", "h", "e", "r">>
Registries == {AgentDomain, Append(AgentDomain, weather)}

\* supervisor_agent = SupervisorAgent(), for the enum `enum`.
init_supervisor(enum) ==
    /\ supervisor_agent.status = "none"
    /\ supervisor_agent' = SupervisorAgent(enum)
    /\ UNCHANGED <<pc, args, state, node, ran, llm, result, session_state,
                   turn, tool, settings, chat, anam>>

InitBuild ==
    /\ pc = <<"idle">>
    /\ args = <<[message |-> "", user_id |-> "",
                 conversation_history |-> None, user_memories |-> None]>>
    /\ state = <<InitialState("", "", None, None)>>
    /\ node = <<None>>
    /\ ran = << <<>> >>
    /\ llm = <<[calls |-> 0, outcome |-> "none", prompt |-> None,
                response |-> None]>>
    /\ result = <<None>>
    /\ supervisor_agent = [status |-> "none", domains |-> <<>>, graph |-> None]
    /\ NothingElse

NextBuild ==
    \/ \E enum \in Registries : init_supervisor(enum)
    \/ \E i \in Invocations, m \in FewMessages, u \in FewUserIds :
           /\ supervisor_agent.status = "constructed"
           /\ route(i, m, u, None, None)
    \/ classify_domain_step
    \/ \E i \in Invocations, content \in FewResponses \cup {weather} :
           llm_respond(i, content)
    \/ llm_error_step
    \/ route_to_agent_step
    \/ route_return_step

SpecBuild == InitBuild /\ [][NextBuild]_vars

\* What the chat page is given in one turn.
UserInputs == {<<"h", "i">>}
LongText == [k \in 1..(SummaryChars + 1) |-> "x"]
StreamOutcomes ==
    {<< <<>>, unknown >>, << <<" ", "\n">>, research >>,
     << <<"o", "k">>, finance >>, << LongText, research >>}
StreamErrors == {<<"r", "e", "f", "u", "s", "e", "d">>}
Summaries == {<<>>, <<"s", "u", "m">>}
SynthesisOutcomes ==
    {[raises |-> TRUE, length |-> 0], [raises |-> FALSE, length |-> 0],
     [raises |-> FALSE, length |-> MinAudioBytes - 1],
     [raises |-> FALSE, length |-> MinAudioBytes]}
AudioOutcomes == {text_to_speech(synthesis) : synthesis \in SynthesisOutcomes}

\* The chat page over at most MaxTurns turns.
InitTurn == InitCalls(1)

NextTurn ==
    \/ initialize_session
    \/ \E user_input \in UserInputs : submit(user_input)
    \/ \E o \in StreamOutcomes : backend_streamed(o[1], o[2])
    \/ \E stream_error \in StreamErrors : backend_failed(stream_error)
    \/ \E summary \in Summaries : summarize_returns(summary)
    \/ summarize_raises
    \/ \E audio_bytes \in AudioOutcomes : text_to_speech_returns(audio_bytes)
    \/ text_to_speech_raises

SpecTurn == InitTurn /\ [][NextTurn]_vars

\* What the environment gives the keys of Settings.
Configurations ==
    {Settings(anam_key, groq_key) : anam_key \in {"", "anam-key"},
                                    groq_key \in {None, Some("gsk-key")}}

\* What the chat tab is given in one run, and what the transcription
\* request does.
TextInputs == {None, Some(<<"h", "i">>)}
TranscriptionRequests ==
    {[raises |-> TRUE, value |-> <<>>], [raises |-> FALSE, value |-> <<>>],
     [raises |-> FALSE, value |-> <<"y", "o">>]}

\* The chat tab with the voice widget, under any configuration; each turn
\* that starts runs to its assistant entry.
InitVoice ==
    /\ pc = <<"idle">>
    /\ args = <<[message |-> "", user_id |-> "",
                 conversation_history |-> None, user_memories |-> None]>>
    /\ state = <<InitialState("", "", None, None)>>
    /\ node = <<None>>
    /\ ran = << <<>> >>
    /\ llm = <<[calls |-> 0, outcome |-> "none", prompt |-> None,
                response |-> None]>>
    /\ result = <<None>>
    /\ supervisor_agent = SupervisorAgent(AgentDomain)
    /\ session_state = InitialSession
    /\ turn = NoTurn
    /\ tool = NoCall
    /\ settings \in Configurations
    /\ chat = NoChat
    /\ anam = NoAnamCall

NextVoice ==
    \/ initialize_session
    \/ record_voice
    \/ \E text_input_val \in TextInputs, request \in TranscriptionRequests :
           run(text_input_val, request)
    \/ \E o \in StreamOutcomes : backend_streamed(o[1], o[2])
    \/ \E stream_error \in StreamErrors : backend_failed(stream_error)
    \/ summarize_raises
    \/ text_to_speech_raises

SpecVoice == InitVoice /\ [][NextVoice]_vars

\* One call of stream_chat_completion: the model's response is ResponseText,
\* which a stream delivers in fragments, some chunks carrying none, and a
\* non-streaming response carries whole or not at all.
ResponseText == <<"a", "b">>
ChunkContents == {<<>>, <<"a">>, <<"b">>}
FallbackContents == {<<>>, ResponseText}
ChatMessages ==
    {<<>>, <<[role |-> "user", content |-> "q1"]>>,
     <<[role |-> "user", content |-> "q1"],
       [role |-> "assistant", content |-> "r1"]>>}

InitChat ==
    /\ InitCalls(1)

\* The chunks of a stream are the fragments of ResponseText in order, with
\* empty chunks anywhere; at most MaxChunks empty chunks are delivered.
NextChunk(content) ==
    LET text == IF chat.received = <<>> THEN <<>>
                ELSE IF Len(chat.received) = 1 THEN chat.received[1]
                ELSE chat.received[1] \o chat.received[2]
    IN  \/ content = <<>> /\ chat.chunks - Len(chat.received) < MaxChunks
        \/ /\ content # <<>>
           /\ Len(text) < Len(ResponseText)
           /\ content = <<ResponseText[Len(text) + 1]>>

NextChat ==
    \/ \E messages \in ChatMessages :
           stream_chat_completion(messages, "You are a helpful assistant.")
    \/ stream_opened
    \/ \E content \in ChunkContents :
           NextChunk(content) /\ stream_chunk(content)
    \/ chat.received \in {<<>>, << <<"a">>, <<"b">> >>} /\ stream_ends
    \/ stream_raises
    \/ \E content \in FallbackContents : fallback_returns(content)
    \/ fallback_raises

SpecChat == InitChat /\ [][NextChat]_vars

\* What the avatar API does with a request: a call raises, or the body
\* response.json() returns.
SessionBodies ==
    {PyDict([sessionToken |-> PyStr(<<"t", "k">>),
             sessionId |-> PyStr(<<"s", "1">>)]),
     PyDict([sessionToken |-> PyNone, sessionId |-> PyNone]),
     PyList(<<>>)}
PostOutcomes ==
    {[raises |-> r, body |-> PyNone] :
        r \in {"post", "raise_for_status", "json"}}
    \cup {[raises |-> "none", body |-> b] : b \in SessionBodies}
SessionIds ==
    {create_demo_session(AIAssistant, "", "").sessionId.items, <<"s", "1">>}

\* The avatar service under any configuration, called from the avatar tab.
InitAnam == InitVoice

NextAnam ==
    \/ initialize_session
    \/ create_session_token(AIAssistant)
    \/ \E outcome \in PostOutcomes : create_session_token_done(outcome)
    \/ \E session_id \in SessionIds : end_session(session_id)
    \/ \E raises \in BOOLEAN : end_session_done(raises)

SpecAnam == InitAnam /\ [][NextAnam]_vars

\* The chat tab and the avatar tab of one session with the avatar API
\* configured.
InitAvatar ==
    /\ InitCalls(1)

NextAvatar ==
    \/ initialize_session
    \/ create_session_token(AIAssistant)
    \/ \E outcome \in PostOutcomes : create_session_token_done(outcome)
    \/ \E user_input \in UserInputs : submit(user_input)
    \/ backend_streamed(<<"o", "k">>, finance)
    \/ \E stream_error \in StreamErrors : backend_failed(stream_error)
    \/ summarize_raises
    \/ text_to_speech_returns(Some(MinAudioBytes))
    \/ text_to_speech_raises

SpecAvatar == InitAvatar /\ [][NextAvatar]_vars

\* What the Mem0 client and the HTTP client do.
AddOutcomes ==
    {Raises, Returns(PyNone), Returns(PyDict(EmptyDict)),
     Returns(PyDict("id" :> "m1"))}
ListOutcomes ==
    {Raises, Returns(PyNone), Returns(PyList(<<>>)), Returns(PyList(<<"m1">>))}
Queries == {None, Some(""), Some("q1")}
ToolUsers == {"u1", "u2"}
CallOutcomes == {Raises, Returns(PyNone)}
JsonOutcomes ==
    {Raises,
     Returns(PyDict([k \in Range(ResultKey) |-> PyList(<<"r1">>)])),
     Returns(PyDict([k \in Range(ResultKey) |-> PyList(<<>>)])),
     Returns(PyDict(EmptyDict)),
     Returns(PyList(<<"r1">>))}

\* At most MaxToolCalls calls of tools_service, one after the other.
InitTools == InitCalls(1)

NextTools ==
    \/ \E user_id \in ToolUsers, add \in AddOutcomes : add_memory(user_id, add)
    \/ \E user_id \in ToolUsers, query \in Queries,
          get_all \in ListOutcomes, search_ \in ListOutcomes :
           retrieve_memories(user_id, query, get_all, search_)
    \/ \E delete \in CallOutcomes : delete_memory("m1", delete)
    \/ \E op \in DOMAIN ResultKey, query \in {"q1", "q2"} : search(op, query)
    \/ \E get \in CallOutcomes, json \in JsonOutcomes : search_done(get, json)

SpecTools == InitTools /\ [][NextTools]_vars

-----------------------------------------------------------------------------
(* The properties.                                                         *)

Registry == {research, finance, travel, shopping, jobs, recipes}

Stocks == <<"s", "t", "o", "c", "k", "s">>
PaddedFinance == <<" ", "F", "i", "n", "a", "n", "c", "e", "\n">>

\* The domain each modelled answer stands for, written out by hand: a
\* registered identifier (after trimming and lower-casing) is itself,
\* everything else is research.
ExpectedDomain(content) ==
    CASE content \in Registry -> content
      [] content = PaddedFinance -> finance
      [] content = <<"T", "r", "a", "v", "e", "l">> -> travel
      [] OTHER -> research

\* C1: for every non-empty message and every text the model returns, the
\* decision route() returns has recommended_agent and classified_domain in
\* the six registered domains; neither is None or an unregistered string.
C1_DecisionInRegistry ==
    \A i \in Invocations :
        (pc[i] = "returned" /\ args[i].message # "") =>
            /\ result[i] # None
            /\ TheValue(result[i]).recommended_agent \in Registry
            /\ TheValue(result[i]).classified_domain # None
            /\ TheValue(TheValue(result[i]).classified_domain) \in Registry

\* route() has returned for a non-empty message although the model answered
\* an unregistered word.
C1_Witness ==
    \E i \in Invocations :
        /\ pc[i] = "returned"
        /\ args[i].message # ""
        /\ llm[i].response = Some(Stocks)

\* C2: when the classification call raises, route() fails and returns no
\* decision; a decision exists only for a call that returned.
C2_FailurePropagates ==
    \A i \in Invocations :
        /\ llm[i].outcome = "error" => (pc[i] = "failed" /\ result[i] = None)
        /\ result[i] # None => llm[i].outcome = "ok"

\* The classification call of an invocation has raised.
C2_Witness ==
    \E i \in Invocations :
        llm[i].outcome = "error" /\ llm[i].calls = 1 /\ pc[i] = "failed"

\* C3: with n the trimmed, lower-cased answer of the model, the classified
\* domain is n when n is a registered identifier and research otherwise;
\* the call is made once and an invalid label raises nothing.
C3_ClassifierRule ==
    \A i \in Invocations :
        llm[i].outcome = "ok" =>
            LET content == TheValue(llm[i].response)
                n == Lower(Strip(content))
                classified == GetOpt(state[i].conversation_context,
                                     "classified_domain")
            IN  /\ classified = Some(IF n \in Registry THEN n ELSE research)
                /\ classified = Some(ExpectedDomain(content))
                /\ llm[i].calls = 1
                /\ pc[i] # "failed"

\* The model answered " Finance\n" and the classifier recorded finance.
C3_Witness ==
    \E i \in Invocations :
        /\ llm[i].response = Some(PaddedFinance)
        /\ state[i].conversation_context["classified_domain"] = finance

\* route()'s preconditions: message and user_id are non-empty.
ValidInput(i) == args[i].message # "" /\ args[i].user_id # ""

\* C4: the user text the classifier puts in its prompt is the message
\* argument of the call, whatever conversation_history is (stated for calls
\* that meet route()'s preconditions).
C4_ClassifiesCurrentMessage ==
    \A i \in Invocations :
        (ValidInput(i) /\ llm[i].prompt # None) =>
            TheValue(llm[i].prompt).query = args[i].message

\* The messages the initial state is to hold: the history in its order,
\* each entry tagged by its role, then the new message as a user turn.
HistoryThenMessage(message, conversation_history) ==
    LET h == IF conversation_history = None
             THEN <<>>
             ELSE TheValue(conversation_history)
    IN  [k \in 1..(Len(h) + 1) |->
            IF k <= Len(h)
            THEN [type    |-> IF h[k].role = "user" THEN "human" ELSE "ai",
                  content |-> h[k].content]
            ELSE [type |-> "human", content |-> message]]

\* C5: the initial state route() builds has messages equal to the history
\* in chronological order followed by the new message as the final user
\* turn, last_message equal to message, an empty conversation_context and
\* next_agent None (stated for calls that meet route()'s preconditions).
C5_InitialState ==
    \A i \in Invocations :
        (ValidInput(i) /\ pc[i] = "graph" /\ ran[i] = <<>>) =>
            /\ state[i].messages =
                   HistoryThenMessage(args[i].message,
                                      args[i].conversation_history)
            /\ state[i].last_message = args[i].message
            /\ DOMAIN state[i].conversation_context = {}
            /\ state[i].next_agent = None

\* The terminal of each domain, written out by hand.
TerminalOf ==
    (research :> research_agent) @@ (finance :> finance_agent) @@
    (travel :> travel_agent) @@ (shopping :> shopping_agent) @@
    (jobs :> jobs_agent) @@ (recipes :> recipes_agent)

\* C6: in every invocation the classifier runs first and once; after it has
\* set next_agent = D the one node scheduled, and the one terminal that
\* runs, is the terminal of D; no node runs after a terminal.
C6_ClassifierThenOneTerminal ==
    \A i \in Invocations :
        /\ Len(ran[i]) <= 2
        /\ Len(ran[i]) >= 1 => ran[i][1] = classifier
        /\ (pc[i] = "graph" /\ Len(ran[i]) = 1) =>
               /\ state[i].next_agent # None
               /\ TheValue(state[i].next_agent) \in Registry
               /\ node[i] = Some(TerminalOf[TheValue(state[i].next_agent)])
        /\ Len(ran[i]) = 2 =>
               /\ ran[i][2] =
                      TerminalOf[state[i].conversation_context["classified_domain"]]
               /\ node[i] = None
        /\ pc[i] \in {"END", "returned"} => Len(ran[i]) = 2

\* An invocation classified as travel has run the classifier and then the
\* travel terminal, and the graph has ended.
C6_Witness ==
    \E i \in Invocations :
        pc[i] = "END" /\ ran[i] = <<classifier, travel_agent>>

\* C7: in every decision route() returns, recommended_agent equals
\* classified_domain.
C7_AgentIsClassifiedDomain ==
    \A i \in Invocations :
        pc[i] = "returned" =>
            TheValue(result[i]).classified_domain =
                Some(TheValue(result[i]).recommended_agent)

\* route() has returned a decision for a message classified as finance.
C7_Witness ==
    \E i \in Invocations :
        /\ pc[i] = "returned"
        /\ llm[i].response = Some(finance)
        /\ TheValue(result[i]).recommended_agent = finance

\* C8: route() called with an empty message or an empty user_id is
\* rejected before the classification call: no request is sent and no
\* decision is returned.
C8_InvalidInputRejected ==
    \A i \in Invocations :
        (pc[i] # "idle" /\ (args[i].message = "" \/ args[i].user_id = "")) =>
            /\ llm[i].calls = 0
            /\ result[i] = None

\* The classifier is deterministic between invocations i and j: the same
\* prompt got the same answer.
SameAnswer(i, j) ==
    llm[i].prompt = llm[j].prompt => llm[i].response = llm[j].response

\* C9: two route() calls made one after another on the same instance with
\* identical arguments, the classifier being deterministic, return
\* identical decisions, whatever calls were made before or between them.
C9_Idempotent ==
    \A i, j \in Invocations :
        (/\ pc[i] = "returned"
         /\ pc[j] = "returned"
         /\ args[i] = args[j]
         /\ SameAnswer(i, j)) =>
            result[i] = result[j]

\* Two calls with identical arguments and answers have returned, with a
\* call classified differently between them.
C9_Witness ==
    /\ pc[1] = "returned" /\ pc[2] = "returned" /\ pc[3] = "returned"
    /\ args[1] = args[3]
    /\ llm[1].response = Some(Stocks)
    /\ llm[3].response = Some(Stocks)
    /\ llm[2].response = Some(finance)
    /\ TheValue(result[2]).recommended_agent = finance

\* The decision of a route() call that runs alone, for the answer
\* `content` of the model: the nodes applied one after the other.
AloneDecision(a, content) ==
    LET s0 == InitialState(a.message, a.user_id, a.conversation_history,
                           a.user_memories)
        s1 == Merge(s0, classify_domain_update(s0, content))
        n  == TheValue(Successor(classifier, s1).next)
        s2 == Merge(s1, RunTerminal(n, s1))
    IN  Decision(s2, a.user_id)

\* C10: for concurrent invocations on the shared instance, under every
\* interleaving of their steps and every completion order of their calls,
\* each returned decision is the one the invocation produces alone: its
\* context holds its own classified_domain and agent, its user_id is its
\* own argument.
C10_Independent ==
    \A i \in Invocations :
        pc[i] = "returned" =>
            LET own == ExpectedDomain(TheValue(llm[i].response))
            IN  /\ result[i] =
                       Some(AloneDecision(args[i], TheValue(llm[i].response)))
                /\ TheValue(result[i]).context =
                       [classified_domain |-> own, agent |-> own]
                /\ TheValue(result[i]).user_id = args[i].user_id

\* The second invocation has overtaken the first: it has returned while the
\* first, classified into another domain for another user, has not yet run
\* its terminal.
C10_Witness ==
    /\ pc[1] = "graph" /\ Len(ran[1]) = 1
    /\ pc[2] = "returned"
    /\ state[1].next_agent = Some(finance)
    /\ TheValue(result[2]).recommended_agent = travel
    /\ args[1].user_id # args[2].user_id
    /\ args[1].message # args[2].message

\* The name of the terminal of domain d: '<d>_agent'.
Suffixed(d) == d \o <<"_", "a", "g", "e", "n", "t">>

\* C11: for every domain D of the registry the graph has exactly one
\* terminal node '<D>_agent' and exactly one conditional-edge entry leading
\* to it, and every terminal node of the graph is the terminal of a
\* registered domain.
C11_LockStep ==
    /\ supervisor_agent.graph # None
    /\ LET graph == TheValue(supervisor_agent.graph)
           terminals == graph.nodes \ {graph.entry_point}
           edges == graph.branches[graph.entry_point]
       IN  /\ \A k \in DOMAIN domains :
                  /\ Cardinality({j \in DOMAIN domains : domains[j] = domains[k]}) = 1
                  /\ Suffixed(domains[k]) \in terminals
                  /\ Cardinality({key \in DOMAIN edges :
                                     edges[key] = Suffixed(domains[k])}) = 1
                  /\ Suffixed(domains[k]) \in DOMAIN edges
                  /\ edges[Suffixed(domains[k])] = Suffixed(domains[k])
           /\ \A n \in terminals :
                  \E k \in DOMAIN domains : n = Suffixed(domains[k])
           /\ Cardinality(terminals) = Len(domains)

\* On the constructed instance a call classified into the last domain of
\* the registry has run that domain's terminal.
C11_Witness ==
    /\ supervisor_agent.status = "constructed"
    /\ \E i \in Invocations :
           /\ state[i].conversation_context = [classified_domain |-> recipes]
           /\ node[i] = Some(recipes_agent)

Classified(i) == llm[i].outcome = "ok"

\* The domain the classifier of invocation i has set.
ClassifiedDomain(i) == ExpectedDomain(TheValue(llm[i].response))

\* C13 as stated: in every state after the classifier step next_agent is
\* the domain D the classifier has set.
C13_NextAgentUnchanged ==
    \A i \in Invocations :
        Classified(i) => state[i].next_agent = Some(ClassifiedDomain(i))

\* C13: after the classifier has set next_agent to a domain D, next_agent
\* is D until the terminal of D has run, and from then on it is the label
\* '<D>_agent' of that same terminal; it never names another domain.
C13_NextAgentSingleShot ==
    \A i \in Invocations :
        Classified(i) =>
            IF ran[i] = <<classifier>>
            THEN state[i].next_agent = Some(ClassifiedDomain(i))
            ELSE /\ ran[i] = <<classifier, TerminalOf[ClassifiedDomain(i)]>>
                 /\ state[i].next_agent = Some(TerminalOf[ClassifiedDomain(i)])

\* The classifier has set next_agent to travel and the terminal has run.
C13_Witness ==
    \E i \in Invocations :
        /\ Classified(i)
        /\ ClassifiedDomain(i) = travel
        /\ ran[i] = <<classifier, travel_agent>>
        /\ state[i].next_agent = Some(travel_agent)

\* The number of classifier runs of invocation i.
ClassifierRuns(i) ==
    Cardinality({k \in DOMAIN ran[i] : ran[i][k] = classifier})

\* C14: each invocation sends exactly one request to the model, when its
\* classifier runs; terminal nodes and the return send none, and no step
\* of route() touches anything outside the invocation.
C14_OneNetworkCall ==
    /\ \A i \in Invocations :
           /\ llm[i].calls = ClassifierRuns(i)
           /\ llm[i].calls <= 1
           /\ pc[i] \in {"awaiting_llm", "END", "returned"} => llm[i].calls = 1
           /\ Len(ran[i]) > 1 => llm[i].calls = 1
    /\ supervisor_agent = SupervisorAgent(AgentDomain)
    /\ tool = NoCall
    /\ session_state = InitialSession
    /\ turn = NoTurn

\* An invocation has returned after its classifier and a terminal ran,
\* having sent one request.
C14_Witness ==
    \E i \in Invocations :
        /\ pc[i] = "returned"
        /\ ran[i] = <<classifier, shopping_agent>>
        /\ llm[i].calls = 1

\* C19: the decision route() returns has user_id equal to the argument,
\* context equal to the conversation_context at the end of the invocation
\* with exactly the keys classified_domain and agent, classified_domain
\* equal to context.classified_domain and recommended_agent equal to
\* context.agent, whatever the domain.
C19_DecisionShape ==
    \A i \in Invocations :
        pc[i] = "returned" =>
            LET decision == TheValue(result[i])
            IN  /\ DOMAIN decision =
                       {"recommended_agent", "classified_domain", "context",
                        "user_id"}
                /\ decision.user_id = args[i].user_id
                /\ decision.context = state[i].conversation_context
                /\ DOMAIN decision.context = {"classified_domain", "agent"}
                /\ decision.classified_domain =
                       Some(decision.context["classified_domain"])
                /\ decision.recommended_agent = decision.context["agent"]

\* A decision for user "u1" classified as jobs has been returned.
C19_Witness ==
    \E i \in Invocations :
        /\ pc[i] = "returned"
        /\ args[i].user_id = "u1"
        /\ TheValue(result[i]).classified_domain = Some(jobs)

\* C15: an invocation whose classification request is outstanding
\* eventually finishes, by returning a decision or by failing.
C15_EventuallyFinishes ==
    (pc[1] = "awaiting_llm") ~> (pc[1] \in {"returned", "failed"})

LastEntry ==
    session_state.conversation_history[Len(session_state.conversation_history)]

\* The first 300 characters of text, or all of it when it has fewer,
\* followed by three dots.
ExpectedTruncation(text) ==
    (IF Len(text) <= 300 THEN text ELSE [k \in 1..300 |-> text[k]])
        \o <<".", ".", ".">>

\* C16: when the summarization call raises or returns an empty summary
\* for a response that is not blank, the summary of the turn is the first
\* 300 characters of the response followed by '...', the turn goes on to
\* speech synthesis, and it ends with an assistant entry carrying that
\* summary appended to conversation_history.
C16_SummaryBestEffort ==
    turn.summarizer \in {"raised", "empty"} =>
        /\ turn.pc \in {"synthesizing", "ready"}
        /\ Strip(TheValue(turn.response_text)) # <<>>
        /\ turn.summary_text =
               Some(ExpectedTruncation(TheValue(turn.response_text)))
        /\ turn.pc = "ready" =>
               /\ session_state.conversation_history # <<>>
               /\ LastEntry.role = "assistant"
               /\ LastEntry.content = TheValue(turn.response_text)
               /\ LastEntry.summary =
                      ExpectedTruncation(TheValue(turn.response_text))

\* A turn whose summarization raised on a response longer than 300
\* characters has completed with the 303-character truncation.
C16_Witness ==
    /\ turn.pc = "ready"
    /\ turn.summarizer = "raised"
    /\ Len(TheValue(turn.response_text)) > 300
    /\ session_state.conversation_history # <<>>
    /\ LastEntry.role = "assistant"
    /\ Len(LastEntry.summary) = 303

\* C17: a turn whose backend request failed appends no assistant entry,
\* so conversation_history is the history sent with the request followed by
\* the user entry of the turn, and last_agent is not set by that turn.
C17_FailedTurnAppendsNothing ==
    turn.backend = "failed" =>
        /\ session_state.conversation_history =
               Append(TheValue(turn.payload).conversation_history,
                      [role |-> "user", content |-> TheValue(turn.user_input)])
        /\ session_state.last_agent # Some(test_agent)

\* What each method of tools_service returns in place of an exception.
EmptyResult(op) ==
    CASE op = "add_memory" -> PyDict(EmptyDict)
      [] op = "delete_memory" -> PyFalse
      [] OTHER -> PyList(<<>>)

C21_ContextOnlyGrows ==
    [][\A i \in Invocations :
          LET old == state[i].conversation_context
              new == state'[i].conversation_context
          IN  /\ \A k \in DOMAIN old : k \in DOMAIN new /\ new[k] = old[k]
              /\ DOMAIN new \subseteq {"classified_domain", "agent"}
              /\ ("classified_domain" \in DOMAIN new /\
                  "classified_domain" \notin DOMAIN old) =>
                     /\ pc[i] = "awaiting_llm"
                     /\ "agent" \notin DOMAIN new
              /\ ("agent" \in DOMAIN new /\ "agent" \notin DOMAIN old) =>
                     /\ pc[i] = "graph"
                     /\ node[i] \subseteq TerminalNodes
                     /\ ran[i] = <<classifier>>
                     /\ "classified_domain" \in DOMAIN old]_vars

\* The terminal of shopping has added agent to a context that held
\* classified_domain.
C21_Witness ==
    \E i \in Invocations :
        /\ ran[i] = <<classifier, shopping_agent>>
        /\ state[i].conversation_context =
               Put(Put(EmptyDict, "classified_domain", shopping),
                   "agent", shopping)

\* C22: at most two nodes run, the classifier and then one terminal; no
\* terminal has a successor, so after the terminal no node is scheduled;
\* and an invocation whose classification call has returned runs a
\* terminal and returns.
C22_ReachesTerminalAndHalts ==
    /\ [](/\ Len(ran[1]) <= 2
          /\ \A n \in TerminalNodes : Successor(n, state[1]).next = None
          /\ Len(ran[1]) = 2 =>
                 /\ ran[1][1] = classifier
                 /\ ran[1][2] \in TerminalNodes
                 /\ node[1] = None
                 /\ pc[1] \in {"END", "returned"})
    /\ (llm[1].outcome = "ok") ~> (Len(ran[1]) = 2 /\ pc[1] = "returned")

\* The graph has halted after the classifier and the research terminal.
C22_Witness ==
    /\ llm[1].outcome = "ok"
    /\ ran[1] = <<classifier, research_agent>>
    /\ node[1] = None
    /\ pc[1] = "END"

\* C23: from the call of route() on, messages, last_message, user_id and
\* user_memories of the state are the values route() built from its
\* arguments, and the state has no field besides these, next_agent and
\* conversation_context.
C23_InputFieldsUnchanged ==
    \A i \in Invocations :
        pc[i] # "idle" =>
            LET initial == InitialState(args[i].message, args[i].user_id,
                                        args[i].conversation_history,
                                        args[i].user_memories)
            IN  /\ state[i].messages = initial.messages
                /\ state[i].last_message = args[i].message
                /\ state[i].user_id = args[i].user_id
                /\ state[i].user_memories = args[i].user_memories
                /\ DOMAIN state[i] = DOMAIN initial

\* An invocation called with a history has returned with the messages
\* route() built.
C23_Witness ==
    \E i \in Invocations :
        /\ pc[i] = "returned"
        /\ Truthy(args[i].conversation_history)
        /\ Len(state[i].messages) = 2
        /\ state[i].last_message = "q1"

\* A turn has completed and its display is still on the page.
TurnCompleted == turn.pc = "ready" /\ turn.response_text # None

\* C24: text_to_speech returns None when the synthesis raises; whatever
\* the speech call gave, a completed turn has appended its assistant entry;
\* the entry's audio_bytes is the audio when the call returned at least
\* 1000 bytes and None otherwise, and in the latter case the audio tab
\* says 'Audio not available'.
C24_AudioDegrades ==
    /\ \A synthesis \in SynthesisOutcomes :
           synthesis.raises => text_to_speech(synthesis) = None
    /\ turn.pc # "error"
    /\ TurnCompleted =>
           /\ session_state.conversation_history # <<>>
           /\ LastEntry.role = "assistant"
           /\ LastEntry.content = TheValue(turn.response_text)
           /\ IF turn.audio_bytes \in {Some(n) : n \in 1000..1001}
              THEN /\ LastEntry.audio_bytes = turn.audio_bytes
                   /\ turn.audio_tab = "audio"
              ELSE /\ LastEntry.audio_bytes = None
                   /\ turn.audio_tab = "not_available"

\* A turn has completed after a synthesis that gave 999 bytes: the entry
\* has no audio.
C24_Witness ==
    /\ TurnCompleted
    /\ turn.audio_bytes = Some(999)
    /\ session_state.conversation_history # <<>>
    /\ LastEntry.role = "assistant"
    /\ LastEntry.audio_bytes = None
    /\ turn.audio_tab = "not_available"

\* C25: transcribe_audio does not raise; when it returns the empty
\* string and the run has no text input, no user turn is produced:
\* nothing is appended to conversation_history and no request is sent.
C25_TranscribeNeverRaises ==
    /\ turn.stt # "raised"
    /\ (turn.stt = "empty" /\ turn.text_input_val = None) =>
           /\ turn.pc = "ready"
           /\ turn.user_input = None
           /\ turn.payload = None

\* C29: a voice turn stores the hash of its recording in
\* last_processed_audio; a run presenting a recording with that hash does
\* not transcribe it and makes no voice turn of it; and a run given a text
\* input processes the text, whether or not a recording is present.
C29_OneTurnPerRecording ==
    /\ turn.is_voice =>
           /\ turn.voice_audio # None
           /\ session_state.last_processed_audio =
                  {hash(r) : r \in turn.voice_audio}
    /\ (turn.voice_audio # None /\ turn.stt = "none") => ~turn.is_voice
    /\ turn.text_input_val # None =>
           /\ turn.user_input = turn.text_input_val
           /\ ~turn.is_voice

\* C26: when the streaming request of stream_chat_completion raises, exactly
\* one non-streaming request with the same messages (the system prompt, then
\* the caller's messages in order) is issued; its content, when there is
\* any, is the last fragment yielded; an error of the fallback request
\* propagates to the consumer.  Without a failure one request is issued.
C26_FallsBackOnce ==
    /\ chat.stream_failed =>
           /\ chat.requests = <<ChatRequest(chat.messages, TRUE),
                                ChatRequest(chat.messages, FALSE)>>
           /\ chat.messages # <<>>
           /\ Head(chat.messages).role = "system"
           /\ Tail(chat.messages) \in ChatMessages
    /\ ~chat.stream_failed => Len(chat.requests) <= 1 /\ chat.fallback = "none"
    /\ (chat.fallback = "returned" /\ chat.content # <<>>) =>
           /\ chat.received # <<>>
           /\ chat.received[Len(chat.received)] = chat.content
           /\ chat.pc = "done"
    /\ chat.fallback = "raised" => chat.raised /\ chat.pc = "failed"
    /\ chat.raised => chat.fallback = "raised"

C26_Witness ==
    /\ chat.stream_failed
    /\ chat.fallback = "returned"
    /\ chat.content # <<>>
    /\ Len(chat.messages) = 3
    /\ chat.pc = "done"

\* The fragments the consumer received, concatenated.
RECURSIVE Concat(_)
Concat(fragments) ==
    IF fragments = <<>> THEN <<>>
    ELSE Head(fragments) \o Concat(Tail(fragments))

\* C27: the concatenation of the fragments the consumer of
\* stream_chat_completion received is the text of a single model response
\* or the beginning of it: no part of a response is delivered twice.
C27_SingleResponse ==
    LET text == Concat(chat.received)
    IN  /\ Len(text) <= Len(ResponseText)
        /\ text = SubSeq(ResponseText, 1, Len(text))

C30_HistoryAlternates ==
    LET h == session_state.conversation_history
    IN  /\ \A k \in DOMAIN h :
               h[k].role = IF k % 2 = 1 THEN "user" ELSE "assistant"
        /\ turn.payload # None =>
               LET sent == TheValue(turn.payload).conversation_history
               IN  sent = <<>> \/ sent[Len(sent)].role = "assistant"

====
